---- MODULE Spec2Model ----
(***************************************************************************)
(* The entity state machine of src/src/App.tsx (hook useEntityState) and   *)
(* the parameter interpolation getInterpolatedValue.                       *)
(*                                                                         *)
(* React keeps two views of the hook's state: the committed values of the  *)
(* useState cells (currentState, transition) and the values captured by    *)
(* the closures of the last render (rendered): the transitionTo callback,  *)
(* the props handed to the entity components and the effect that starts    *)
(* the animation loop all read the latter.                                 *)
(*                                                                         *)
(* Numbers that are fractions in the program (progress, interpolated       *)
(* values) are exact rationals [n, d] in lowest terms; times are in ms.    *)
(***************************************************************************)
EXTENDS Integers, Sequences, FiniteSets, TLC

VARIABLES
    now,            \* performance.now(), ms
    currentState,   \* useState cell currentState
    transition,     \* useState cell transition
    transitionRef,  \* transitionRef.current
    rendered,       \* currentState and transition as captured by the last render
    rafPending,     \* a requestAnimationFrame(animate) callback is outstanding
    effectTo,       \* transition.to captured by the animate closure of the effect
    effectCleanup,  \* the last run of the animation effect returned a cleanup
    lastOp,         \* the operation that ran last, with its argument
    interp,         \* one call of getInterpolatedValue: arguments and result
    ease,           \* one pair of calls of easeInOutCubic: arguments and results
    ui,             \* App: selected form, auto-rotate flag, last request made
    ring,           \* one ParticleRing: buffers, uniforms, rotation
    cloud,          \* the NebulaCloud: buffers and uniforms
    clock           \* the THREE.Clock of the frame loop (state.clock), ms

vars == <<now, currentState, transition, transitionRef, rendered, rafPending,
          effectTo, effectCleanup, lastOp, interp, ease, ui, ring, cloud,
          clock>>

\* What the hook's own steps never touch
sceneVars == <<ease, ui, ring, cloud, clock>>

engineVars == <<currentState, transition, transitionRef>>

----------------------------------------------------------------------------
\* Bounds of the model

MaxTime == 3000

MaxVal == 2

EaseGrid == 20

\* Amounts of time (ms) that may pass between two steps of the program
Dts == {250, 400}

\* Per-state values handed to getInterpolatedValue
Vals == 0..MaxVal

----------------------------------------------------------------------------
\* Exact rational arithmetic

RECURSIVE GCD(_, _)
GCD(a, b) == IF b = 0 THEN a ELSE GCD(b, a % b)

Abs(x) == IF x < 0 THEN -x ELSE x

RNorm(n, d) ==
    LET s == IF d < 0 THEN -1 ELSE 1
        g == GCD(Abs(n), Abs(d))
    IN  [n |-> (s * n) \div g, d |-> (s * d) \div g]

R(i) == [n |-> i, d |-> 1]

Zero == R(0)

One == R(1)

Half == [n |-> 1, d |-> 2]

\* Sums are taken over the least common denominator
RAdd(p, q) ==
    LET g == GCD(p.d, q.d)
    IN  RNorm(p.n * (q.d \div g) + q.n * (p.d \div g), (p.d \div g) * q.d)

RSub(p, q) ==
    LET g == GCD(p.d, q.d)
    IN  RNorm(p.n * (q.d \div g) - q.n * (p.d \div g), (p.d \div g) * q.d)

RMul(p, q) == RNorm(p.n * q.n, p.d * q.d)

RDiv(p, q) == RNorm(p.n * q.d, p.d * q.n)

RLt(p, q) == IF p.d = q.d THEN p.n < q.n ELSE p.n * q.d < q.n * p.d

RLeq(p, q) == IF p.d = q.d THEN p.n <= q.n ELSE p.n * q.d <= q.n * p.d

RMin(p, q) == IF RLt(q, p) THEN q ELSE p

RPow3(p) == RMul(RMul(p, p), p)

----------------------------------------------------------------------------
\* Types and tables of the hook

EntityState == {"resting", "thinking", "acting"}

NULL == [startTime |-> -1, duration |-> -1]

TRANSITION_DURATIONS ==
    [k \in {"resting-thinking", "thinking-acting", "acting-resting",
            "thinking-resting", "resting-acting", "acting-thinking"} |->
        CASE k = "resting-thinking" -> 1500
          [] k = "thinking-acting"  -> 600
          [] k = "acting-resting"   -> 2000
          [] k = "thinking-resting" -> 1200
          [] k = "resting-acting"   -> 800
          [] k = "acting-thinking"  -> 1000]

DefaultDuration == 1000

\* the lookup with the key built the wrong way round
getTransitionDurationSwapped(from, to) ==
    LET key == to \o "-" \o from
    IN  IF key \in DOMAIN TRANSITION_DURATIONS /\ TRANSITION_DURATIONS[key] # 0
        THEN TRANSITION_DURATIONS[key]
        ELSE DefaultDuration

getTransitionDuration(from, to) ==
    LET key == from \o "-" \o to
    IN  IF key \in DOMAIN TRANSITION_DURATIONS /\ TRANSITION_DURATIONS[key] # 0
        THEN TRANSITION_DURATIONS[key]
        ELSE DefaultDuration

\* the easing with the division by 2 of the second branch left out
easeInOutCubicNoHalving(t) ==
    IF RLt(t, Half)
    THEN RMul(R(4), RPow3(t))
    ELSE RSub(One, RPow3(RAdd(RMul(R(-2), t), R(2))))

\* the easing with the first branch squared instead of cubed
easeInOutCubicSquared(t) ==
    IF RLt(t, Half)
    THEN RMul(R(4), RMul(t, t))
    ELSE RSub(One, RDiv(RPow3(RAdd(RMul(R(-2), t), R(2))), R(2)))

easeInOutCubic(t) ==
    IF RLt(t, Half)
    THEN RMul(R(4), RPow3(t))
    ELSE RSub(One, RDiv(RPow3(RAdd(RMul(R(-2), t), R(2))), R(2)))

InitialTransition ==
    [from |-> "resting", to |-> "resting", progress |-> One,
     isTransitioning |-> FALSE]

----------------------------------------------------------------------------
\* getInterpolatedValue(restingValue, thinkingValue, actingValue,
\*                      currentState, transition)

stateValues(restingValue, thinkingValue, actingValue) ==
    [s \in EntityState |->
        CASE s = "resting"  -> R(restingValue)
          [] s = "thinking" -> R(thinkingValue)
          [] s = "acting"   -> R(actingValue)]

\* the lookup of an idle engine made through the record's to field
getInterpolatedValueIdleTo(restingValue, thinkingValue, actingValue, cs, tr) ==
    LET sv == stateValues(restingValue, thinkingValue, actingValue)
    IN  IF ~tr.isTransitioning
        THEN sv[tr.to]
        ELSE RAdd(sv[tr.from],
                  RMul(RSub(sv[tr.to], sv[tr.from]), tr.progress))

\* the blend run from the target back to the origin
getInterpolatedValueReversed(restingValue, thinkingValue, actingValue, cs, tr) ==
    LET sv == stateValues(restingValue, thinkingValue, actingValue)
    IN  IF ~tr.isTransitioning
        THEN sv[cs]
        ELSE RAdd(sv[tr.to],
                  RMul(RSub(sv[tr.from], sv[tr.to]), tr.progress))

getInterpolatedValue(restingValue, thinkingValue, actingValue, cs, tr) ==
    LET sv == stateValues(restingValue, thinkingValue, actingValue)
    IN  IF ~tr.isTransitioning
        THEN sv[cs]
        ELSE RAdd(sv[tr.from],
                  RMul(RSub(sv[tr.to], sv[tr.from]), tr.progress))

----------------------------------------------------------------------------
\* The engine as a value, and the two steps that change it

Engine == [currentState |-> currentState, transition |-> transition,
           transitionRef |-> transitionRef]

\* transitionTo without the test newState === currentState
transitionToFnNoSelfTest(e, seenState, seenTransitioning, newState, t) ==
    IF seenTransitioning
    THEN e
    ELSE [currentState  |-> e.currentState,
          transition    |-> [from |-> seenState, to |-> newState,
                             progress |-> Zero, isTransitioning |-> TRUE],
          transitionRef |-> [startTime |-> t,
                             duration |-> getTransitionDuration(seenState, newState)]]

\* transitionTo(newState), called through the callback of the last render:
\* seenState and seenTransitioning are the values that callback captured
transitionToFn(e, seenState, seenTransitioning, newState, t) ==
    IF newState = seenState \/ seenTransitioning
    THEN e
    ELSE [currentState  |-> e.currentState,
          transition    |-> [from |-> seenState, to |-> newState,
                             progress |-> Zero, isTransitioning |-> TRUE],
          transitionRef |-> [startTime |-> t,
                             duration |-> getTransitionDuration(seenState, newState)]]

\* animate that forgets setCurrentState on the completing tick
animateFnNoCommit(e, to, t) ==
    IF e.transitionRef = NULL
    THEN [engine |-> e, again |-> FALSE]
    ELSE LET elapsed       == t - e.transitionRef.startTime
             rawProgress   == RMin(RNorm(elapsed, e.transitionRef.duration), One)
             easedProgress == easeInOutCubic(rawProgress)
         IN  IF RLeq(One, rawProgress)
             THEN [engine |-> [currentState  |-> e.currentState,
                               transition    |-> [e.transition EXCEPT
                                                     !.progress = One,
                                                     !.isTransitioning = FALSE],
                               transitionRef |-> NULL],
                   again  |-> FALSE]
             ELSE [engine |-> [e EXCEPT !.transition.progress = easedProgress],
                   again  |-> TRUE]

\* animate that commits as soon as the eased progress reaches one half
animateFnEarlyCommit(e, to, t) ==
    IF e.transitionRef = NULL
    THEN [engine |-> e, again |-> FALSE]
    ELSE LET elapsed       == t - e.transitionRef.startTime
             rawProgress   == RMin(RNorm(elapsed, e.transitionRef.duration), One)
             easedProgress == easeInOutCubic(rawProgress)
         IN  IF RLeq(Half, rawProgress)
             THEN [engine |-> [currentState  |-> to,
                               transition    |-> [e.transition EXCEPT
                                                     !.progress = One,
                                                     !.isTransitioning = FALSE],
                               transitionRef |-> NULL],
                   again  |-> FALSE]
             ELSE [engine |-> [e EXCEPT !.transition.progress = easedProgress],
                   again  |-> TRUE]

\* animate that measures elapsed time from the previous tick: it moves
\* startTime to the time of the tick
animateFnRestamp(e, to, t) ==
    IF e.transitionRef = NULL
    THEN [engine |-> e, again |-> FALSE]
    ELSE LET elapsed       == t - e.transitionRef.startTime
             rawProgress   == RMin(RNorm(elapsed, e.transitionRef.duration), One)
             easedProgress == easeInOutCubic(rawProgress)
         IN  IF RLeq(One, rawProgress)
             THEN [engine |-> [currentState  |-> to,
                               transition    |-> [e.transition EXCEPT
                                                     !.progress = One,
                                                     !.isTransitioning = FALSE],
                               transitionRef |-> NULL],
                   again  |-> FALSE]
             ELSE [engine |-> [e EXCEPT !.transition.progress = easedProgress,
                                        !.transitionRef.startTime = t],
                   again  |-> TRUE]

\* animate(), the requestAnimationFrame callback; to is the transition.to
\* its closure captured.  again: the callback re-registers itself.
animateFn(e, to, t) ==
    IF e.transitionRef = NULL
    THEN [engine |-> e, again |-> FALSE]
    ELSE LET elapsed       == t - e.transitionRef.startTime
             rawProgress   == RMin(RNorm(elapsed, e.transitionRef.duration), One)
             easedProgress == easeInOutCubic(rawProgress)
         IN  IF RLeq(One, rawProgress)
             THEN [engine |-> [currentState  |-> to,
                               transition    |-> [e.transition EXCEPT
                                                     !.progress = One,
                                                     !.isTransitioning = FALSE],
                               transitionRef |-> NULL],
                   again  |-> FALSE]
             ELSE [engine |-> [e EXCEPT !.transition.progress = easedProgress],
                   again  |-> TRUE]

----------------------------------------------------------------------------
\* The hook as a state machine

\* No call of easeInOutCubic has been made
NoEase == [t1 |-> Zero, t2 |-> Zero, out1 |-> Zero, out2 |-> Zero,
           called |-> FALSE]

\* App's own state after mounting
InitialUI == [form |-> "ophanim", autoRotate |-> TRUE, requested |-> "none"]

\* The particle systems before they are constructed
NoRing == [mounted |-> FALSE]

NoCloud == [mounted |-> FALSE]

\* The frame loop's clock before the first frame
NoClock == [running |-> FALSE, oldTime |-> 0, elapsedTime |-> 0]

NoCall ==
    [a |-> 0, b |-> 0, c |-> 0, currentState |-> "resting",
     transition |-> InitialTransition, elapsed |-> 0, out |-> Zero,
     called |-> FALSE]

Init ==
    /\ now = 0
    /\ currentState = "resting"
    /\ transition = InitialTransition
    /\ transitionRef = NULL
    /\ rendered = [currentState |-> "resting", transition |-> InitialTransition]
    /\ rafPending = FALSE
    /\ effectTo = "resting"
    /\ effectCleanup = FALSE
    /\ lastOp = <<"init", "none">>
    /\ interp = NoCall
    /\ ease = NoEase
    /\ ui = InitialUI
    /\ ring = NoRing
    /\ cloud = NoCloud
    /\ clock = NoClock

\* Time passes between two callbacks
Advance ==
    \E dt \in Dts :
        /\ now + dt <= MaxTime
        /\ now' = now + dt
        /\ lastOp' = <<"advance", "none">>
        /\ UNCHANGED <<currentState, transition, transitionRef, rendered,
                       rafPending, effectTo, effectCleanup, interp, sceneVars>>

\* A key press or a button click requests newState
TransitionTo ==
    \E newState \in EntityState :
        LET e == transitionToFn(Engine, rendered.currentState,
                                rendered.transition.isTransitioning,
                                newState, now)
        IN  /\ currentState' = e.currentState
            /\ transition' = e.transition
            /\ transitionRef' = e.transitionRef
            /\ lastOp' = <<"transitionTo", newState>>
            /\ UNCHANGED <<now, rendered, rafPending, effectTo,
                           effectCleanup, interp, sceneVars>>

\* The browser runs the outstanding animation-frame callback
Animate ==
    /\ rafPending
    /\ LET r == animateFn(Engine, effectTo, now)
       IN  /\ currentState' = r.engine.currentState
           /\ transition' = r.engine.transition
           /\ transitionRef' = r.engine.transitionRef
           /\ rafPending' = r.again
    /\ lastOp' = <<"animate", "none">>
    /\ UNCHANGED <<now, rendered, effectTo, effectCleanup, interp, sceneVars>>

\* React re-renders after a state update and runs the animation effect when
\* one of its dependencies [transition.isTransitioning, transition.to] changed
Render ==
    /\ rendered # [currentState |-> currentState, transition |-> transition]
    /\ rendered' = [currentState |-> currentState, transition |-> transition]
    /\ IF \/ rendered.transition.isTransitioning # transition.isTransitioning
          \/ rendered.transition.to # transition.to
       THEN LET afterCleanup == IF effectCleanup THEN FALSE ELSE rafPending
            IN  IF ~transition.isTransitioning \/ transitionRef = NULL
                THEN /\ rafPending' = afterCleanup
                     /\ effectCleanup' = FALSE
                     /\ UNCHANGED effectTo
                ELSE /\ rafPending' = TRUE
                     /\ effectCleanup' = TRUE
                     /\ effectTo' = transition.to
       ELSE UNCHANGED <<rafPending, effectTo, effectCleanup>>
    /\ lastOp' = <<"render", "none">>
    /\ UNCHANGED <<now, currentState, transition, transitionRef, interp, sceneVars>>

Next == Advance \/ TransitionTo \/ Animate \/ Render

Spec == Init /\ [][Next]_vars

----------------------------------------------------------------------------
\* getInterpolatedValue as a pure function: the arguments are drawn from
\* bounded sets and the call is applied once

\* Progress values a record may hold
Progresses == {easeInOutCubic(RNorm(k, 4)) : k \in 0..4}

\* Records of an idle engine, with any from, to and progress left in them
IdleRecords ==
    [from : EntityState, to : EntityState, progress : Progresses,
     isTransitioning : {FALSE}]

\* Times (ms since the start of the transition) of the sampled ticks
SampleTimes == {t \in 0..MaxTime : t % 250 = 0 \/ t % 400 = 0}

\* The record the engine holds when a transition from -> to started at time 0
\* and the last animation tick ran at time el
EngineRecord(from, to, el) ==
    LET idle    == [currentState  |-> from,
                    transition    |-> [from |-> from, to |-> from,
                                       progress |-> One,
                                       isTransitioning |-> FALSE],
                    transitionRef |-> NULL]
        started == transitionToFn(idle, from, FALSE, to, 0)
    IN  IF el = 0 THEN started.transition
        ELSE animateFn(started, to, el).engine.transition

ActiveInputs ==
    {[currentState |-> from, transition |-> EngineRecord(from, to, el),
      elapsed |-> el] :
        <<from, to, el>> \in
            {x \in EntityState \X EntityState \X SampleTimes :
                x[1] # x[2] /\ x[3] < getTransitionDuration(x[1], x[2])}}

IdleInputs ==
    {[currentState |-> cs, transition |-> tr, elapsed |-> 0] :
        <<cs, tr>> \in EntityState \X IdleRecords}

InterpInputs ==
    {[a |-> v[1], b |-> v[2], c |-> v[3], currentState |-> i.currentState,
      transition |-> i.transition, elapsed |-> i.elapsed, out |-> Zero,
      called |-> FALSE] :
        <<v, i>> \in (Vals \X Vals \X Vals) \X (ActiveInputs \cup IdleInputs)}

InitInterp ==
    /\ now = 0
    /\ currentState = "resting"
    /\ transition = InitialTransition
    /\ transitionRef = NULL
    /\ rendered = [currentState |-> "resting", transition |-> InitialTransition]
    /\ rafPending = FALSE
    /\ effectTo = "resting"
    /\ effectCleanup = FALSE
    /\ lastOp = <<"init", "none">>
    /\ interp \in InterpInputs
    /\ ease = NoEase
    /\ ui = InitialUI
    /\ ring = NoRing
    /\ cloud = NoCloud
    /\ clock = NoClock

Interpolate ==
    /\ ~interp.called
    /\ interp' = [interp EXCEPT
                     !.out = getInterpolatedValue(interp.a, interp.b, interp.c,
                                                  interp.currentState,
                                                  interp.transition),
                     !.called = TRUE]
    /\ UNCHANGED <<now, currentState, transition, transitionRef, rendered,
                   rafPending, effectTo, effectCleanup, lastOp, sceneVars>>

NextInterp == Interpolate

SpecInterp == InitInterp /\ [][NextInterp]_vars

----------------------------------------------------------------------------
\* Properties of the transition engine

\* The hook is idle and its last render shows the committed state
Settled ==
    /\ ~transition.isTransitioning
    /\ rendered = [currentState |-> currentState, transition |-> transition]

\* Time since the start of the active transition
Elapsed == now - transitionRef.startTime

\* C1: a transitionTo request issued while a transition is in progress is a
\* no-op for every target: currentState, the record (from, to, progress,
\* isTransitioning) and the start time and duration are unchanged, also when
\* the request follows the first one with no tick and no render in between.
C1_RequestWhileTransitioningIsNoOp ==
    [][(lastOp'[1] = "transitionTo" /\ transition.isTransitioning)
          => UNCHANGED engineVars]_vars

\* C2: for every state s, transitionTo(s) called while the engine is idle
\* with currentState = s leaves currentState, the record, the start time and
\* duration unchanged and schedules no animation loop.
C2_SelfRequestIsNoOp ==
    [][(/\ lastOp'[1] = "transitionTo"
        /\ ~transition.isTransitioning
        /\ lastOp'[2] = currentState)
          => UNCHANGED <<engineVars, rafPending, effectTo, effectCleanup,
                         rendered>>]_vars

\* A request for the current state has run on an idle engine that has
\* completed a transition before
C2_Witness ==
    /\ lastOp = <<"transitionTo", currentState>>
    /\ ~transition.isTransitioning
    /\ transition.from # transition.to

C4_NeverPreempted ==
    [][transition.isTransitioning
          => /\ transition'.from = transition.from
             /\ transition'.to = transition.to
             /\ (~transition'.isTransitioning
                    => currentState' = transition.to)]_vars

\* C5: while a transition from -> to is active and the elapsed time is below
\* its duration, an animation tick leaves isTransitioning true and
\* currentState = from; currentState changes only on a tick with elapsed >=
\* duration, and then to the target.  resting -> thinking ticked at 750 ms
\* has progress 1/2, isTransitioning true and currentState resting.
C5_CommitOnlyAtDuration ==
    /\ [][(/\ lastOp'[1] = "animate"
            /\ transition.isTransitioning
            /\ transitionRef # NULL
            /\ Elapsed < getTransitionDuration(transition.from, transition.to))
              => /\ transition'.isTransitioning
                 /\ currentState = transition.from
                 /\ currentState' = transition.from]_vars
    /\ [][currentState' # currentState
              => /\ lastOp'[1] = "animate"
                 /\ transition.isTransitioning
                 /\ transitionRef # NULL
                 /\ Elapsed >= getTransitionDuration(transition.from, transition.to)
                 /\ currentState' = transition.to]_vars
    /\ [][(/\ lastOp'[1] = "animate"
            /\ transition.isTransitioning
            /\ transition.from = "resting"
            /\ transition.to = "thinking"
            /\ transitionRef # NULL
            /\ Elapsed = 750)
              => /\ transition'.progress = Half
                 /\ transition'.isTransitioning
                 /\ currentState' = "resting"]_vars

\* resting -> thinking has just been ticked 750 ms after its start
C5_Witness ==
    /\ lastOp[1] = "animate"
    /\ currentState = "resting"
    /\ transition = [from |-> "resting", to |-> "thinking", progress |-> Half,
                     isTransitioning |-> TRUE]
    /\ transitionRef # NULL
    /\ Elapsed = 750

\* A request that starts a transition: it leaves a fresh record behind
StartsTransition ==
    /\ lastOp'[1] = "transitionTo"
    /\ transition'.isTransitioning
    /\ (~transition.isTransitioning \/ transitionRef' # transitionRef)

\* C6: progress always lies in [0, 1]; within one transition it does not
\* decrease from tick to tick; it is 0 at the start of each new transition.
C6_ProgressBoundedMonotone ==
    /\ [](RLeq(Zero, transition.progress) /\ RLeq(transition.progress, One))
    /\ [][(lastOp'[1] = "animate" /\ transition.isTransitioning)
              => RLeq(transition.progress, transition'.progress)]_vars
    /\ [][StartsTransition => transition'.progress = Zero]_vars

\* A tick has moved the progress of an active transition past one half
C6_Witness ==
    /\ lastOp[1] = "animate"
    /\ transition.isTransitioning
    /\ RLt(Half, transition.progress)
    /\ RLt(transition.progress, One)

\* The DurationTable of the specification
DurationTable(from, to) ==
    CASE from = "resting"  /\ to = "thinking" -> 1500
      [] from = "thinking" /\ to = "acting"   -> 600
      [] from = "acting"   /\ to = "resting"  -> 2000
      [] from = "thinking" /\ to = "resting"  -> 1200
      [] from = "resting"  /\ to = "acting"   -> 800
      [] from = "acting"   /\ to = "thinking" -> 1000
      [] OTHER                                -> 1000

\* C7: the duration of a transition is the DurationTable entry of its
\* (from, to) pair, 1000 ms for a pair without an entry; it is set when the
\* transition starts and no later step of that transition changes it.
C7_DurationFromTable ==
    /\ [](/\ \A f, t \in EntityState :
                getTransitionDuration(f, t) = DurationTable(f, t)
           /\ transitionRef # NULL
                => /\ transition.isTransitioning
                   /\ transitionRef.duration =
                         DurationTable(transition.from, transition.to))
    /\ [][(transitionRef # NULL /\ transitionRef' # NULL
              /\ transitionRef'.duration # transitionRef.duration)
              => StartsTransition]_vars

\* acting -> resting is being animated with its 2000 ms
C7_Witness ==
    /\ lastOp[1] = "animate"
    /\ transition.isTransitioning
    /\ transition.from = "acting"
    /\ transition.to = "resting"
    /\ transitionRef # NULL
    /\ transitionRef.duration = 2000

\* C8: the animation tick is idempotent for a fixed timestamp: run a second
\* time with the same now it leaves currentState and the record as the
\* first run left them, mid-transition and on the completing tick.
C8_TickIdempotent ==
    rafPending =>
        LET once  == animateFn(Engine, effectTo, now)
            twice == animateFn(once.engine, effectTo, now)
        IN  /\ twice.engine.currentState = once.engine.currentState
            /\ twice.engine.transition = once.engine.transition

\* A tick has run mid-transition and the next one may run at the same time
C8_Witness ==
    /\ rafPending
    /\ lastOp[1] = "animate"
    /\ transition.isTransitioning
    /\ RLt(Zero, transition.progress)
    /\ RLt(transition.progress, One)

----------------------------------------------------------------------------
\* Properties of getInterpolatedValue (under SpecInterp)

\* C9: for an idle engine getInterpolatedValue(a, b, c, currentState,
\* transition) is the value of currentState (a resting, b thinking,
\* c acting), whatever from, to and progress the record holds.
C9_IdleReturnsStateValue ==
    (interp.called /\ ~interp.transition.isTransitioning)
        => interp.out = R(CASE interp.currentState = "resting"  -> interp.a
                            [] interp.currentState = "thinking" -> interp.b
                            [] interp.currentState = "acting"   -> interp.c)

\* The call has run for an engine idle in thinking whose record still
\* points elsewhere, with three different values
C9_Witness ==
    /\ interp.called
    /\ ~interp.transition.isTransitioning
    /\ interp.currentState = "thinking"
    /\ interp.transition.to = "acting"
    /\ interp.transition.progress = Half
    /\ interp.a # interp.b
    /\ interp.b # interp.c
    /\ interp.out = R(interp.b)

\* C10: during a transition from -> to whose eased progress is p,
\* getInterpolatedValue returns value(from) + (value(to) - value(from)) * p,
\* p being the eased progress of elapsed / duration, not the raw one.
C10_BlendOverEasedProgress ==
    (interp.called /\ interp.transition.isTransitioning) =>
        LET val(s) == CASE s = "resting"  -> interp.a
                        [] s = "thinking" -> interp.b
                        [] s = "acting"   -> interp.c
            vf == val(interp.transition.from)
            vt == val(interp.transition.to)
            raw == RNorm(interp.elapsed,
                         DurationTable(interp.transition.from,
                                       interp.transition.to))
            p == easeInOutCubic(raw)
        IN  /\ interp.transition.progress = p
            /\ interp.out.n * p.d = (vf * p.d + (vt - vf) * p.n) * interp.out.d

\* The call has run for acting -> thinking, eased progress strictly between
\* the raw progress and 1, with different values at both ends
C10_Witness ==
    /\ interp.called
    /\ interp.transition.isTransitioning
    /\ interp.transition.from = "acting"
    /\ interp.transition.to = "thinking"
    /\ interp.elapsed = 750
    /\ interp.b # interp.c
    /\ interp.out # R(interp.b)
    /\ interp.out # R(interp.c)

----------------------------------------------------------------------------
\* easeInOutCubic as a pure function: two arguments are drawn from a grid on
\* [0, 1] and the function is applied to both

EaseInputs == {RNorm(k, EaseGrid) : k \in 0..EaseGrid} \cup {Half}

InitEase ==
    /\ now = 0
    /\ currentState = "resting"
    /\ transition = InitialTransition
    /\ transitionRef = NULL
    /\ rendered = [currentState |-> "resting", transition |-> InitialTransition]
    /\ rafPending = FALSE
    /\ effectTo = "resting"
    /\ effectCleanup = FALSE
    /\ lastOp = <<"init", "none">>
    /\ interp = NoCall
    /\ ease \in [t1 : EaseInputs, t2 : EaseInputs, out1 : {Zero},
                  out2 : {Zero}, called : {FALSE}]
    /\ ui = InitialUI
    /\ ring = NoRing
    /\ cloud = NoCloud
    /\ clock = NoClock

ApplyEase ==
    /\ ~ease.called
    /\ ease' = [ease EXCEPT !.out1 = easeInOutCubic(ease.t1),
                            !.out2 = easeInOutCubic(ease.t2),
                            !.called = TRUE]
    /\ UNCHANGED <<now, currentState, transition, transitionRef, rendered,
                   rafPending, effectTo, effectCleanup, lastOp, interp, ui,
                   ring, cloud, clock>>

NextEase == ApplyEase

SpecEase == InitEase /\ [][NextEase]_vars

\* C11: easeInOutCubic maps 0 to 0, 1/2 to 1/2 and 1 to 1, maps [0, 1] into
\* [0, 1] and is non-decreasing on [0, 1], also across the branch switch at
\* 1/2.
C11_EaseFixedPointsMonotone ==
    ease.called =>
        /\ (ease.t1 = Zero => ease.out1 = Zero)
        /\ (ease.t1 = Half => ease.out1 = Half)
        /\ (ease.t1 = One => ease.out1 = One)
        /\ RLeq(Zero, ease.out1) /\ RLeq(ease.out1, One)
        /\ (RLeq(ease.t1, ease.t2) => RLeq(ease.out1, ease.out2))

\* The function has been applied to two points on either side of 1/2
C11_Witness ==
    /\ ease.called
    /\ RLt(ease.t1, Half)
    /\ RLt(Zero, ease.t1)
    /\ RLt(Half, ease.t2)
    /\ RLt(ease.out1, ease.out2)

----------------------------------------------------------------------------
\* App: form selection, auto-rotate and the two keydown listeners

\* The hook right after mounting
HookInit ==
    /\ now = 0
    /\ currentState = "resting"
    /\ transition = InitialTransition
    /\ transitionRef = NULL
    /\ rendered = [currentState |-> "resting", transition |-> InitialTransition]
    /\ rafPending = FALSE
    /\ effectTo = "resting"
    /\ effectCleanup = FALSE

MaxUITime == 1000

UIDt == 500

EntityForm == {"ophanim", "nebula", "lattice"}

\* e.key values tried ("backtick" stands for the backtick character): the
\* bound letters in both cases, the backtick, the digit
\* keys and one unbound key
Keys == {"r", "R", "t", "T", "a", "A", "backtick", "1", "2", "3", "x"}

toLowerCase(key) ==
    CASE key = "R" -> "r"
      [] key = "T" -> "t"
      [] key = "A" -> "a"
      [] OTHER -> key

\* the hook's key table without the lower-casing of e.key
hookKeyTargetCaseSensitive(key) ==
    CASE key = "r" -> "resting"
      [] key = "t" -> "thinking"
      [] key = "a" -> "acting"
      [] OTHER -> "none"

\* The state the hook's keydown listener requests for a key, "none" if the
\* listener does not call transitionTo
hookKeyTarget(key) ==
    CASE toLowerCase(key) = "r" -> "resting"
      [] toLowerCase(key) = "t" -> "thinking"
      [] toLowerCase(key) = "a" -> "acting"
      [] OTHER -> "none"

\* the forms table with the lattice entry enabled
availableAll(form) == form \in {"ophanim", "nebula", "lattice"}

\* The available column of FormSwitcher's forms table
available(form) == form \in {"ophanim", "nebula"}

\* The entity component Scene mounts for a form
Scene(form) ==
    CASE form = "ophanim" -> "OphanimEntity"
      [] form = "nebula" -> "NebulaEntity"
      [] form = "lattice" -> "OphanimEntity"

\* App's keydown listener
appHandleKeyDown(u, key) ==
    LET u1 == IF key = "backtick" THEN [u EXCEPT !.autoRotate = ~u.autoRotate] ELSE u
        u2 == IF key = "1" THEN [u1 EXCEPT !.form = "ophanim"] ELSE u1
        u3 == IF key = "2" THEN [u2 EXCEPT !.form = "nebula"] ELSE u2
    IN  u3

InitUI ==
    /\ HookInit
    /\ lastOp = <<"init", "none">>
    /\ interp = NoCall
    /\ ease = NoEase
    /\ ui = InitialUI
    /\ ring = NoRing
    /\ cloud = NoCloud
    /\ clock = NoClock

AdvanceUI ==
    /\ now + UIDt <= MaxUITime
    /\ now' = now + UIDt
    /\ lastOp' = <<"advance", "none">>
    /\ UNCHANGED <<currentState, transition, transitionRef, rendered,
                   rafPending, effectTo, effectCleanup, interp, sceneVars>>

\* A keydown event on window: both listeners run
KeyDown ==
    \E key \in Keys :
        LET target == hookKeyTarget(key)
            e == IF target = "none"
                 THEN Engine
                 ELSE transitionToFn(Engine, rendered.currentState,
                                     rendered.transition.isTransitioning,
                                     target, now)
        IN  /\ currentState' = e.currentState
            /\ transition' = e.transition
            /\ transitionRef' = e.transitionRef
            /\ ui' = [appHandleKeyDown(ui, key) EXCEPT !.requested = target]
            /\ lastOp' = <<"keydown", key>>
            /\ UNCHANGED <<now, rendered, rafPending, effectTo, effectCleanup,
                           interp, ease, ring, cloud, clock>>

\* A click on one of StateUI's buttons
ClickState ==
    \E state \in EntityState :
        LET e == transitionToFn(Engine, rendered.currentState,
                                rendered.transition.isTransitioning,
                                state, now)
        IN  /\ currentState' = e.currentState
            /\ transition' = e.transition
            /\ transitionRef' = e.transitionRef
            /\ ui' = [ui EXCEPT !.requested = state]
            /\ lastOp' = <<"clickState", state>>
            /\ UNCHANGED <<now, rendered, rafPending, effectTo, effectCleanup,
                           interp, ease, ring, cloud, clock>>

\* A click on one of FormSwitcher's buttons
ClickForm ==
    \E form \in EntityForm :
        /\ ui' = [ui EXCEPT !.form = IF available(form) THEN form ELSE @,
                            !.requested = "none"]
        /\ lastOp' = <<"clickForm", form>>
        /\ UNCHANGED <<now, currentState, transition, transitionRef, rendered,
                       rafPending, effectTo, effectCleanup, interp, ease,
                       ring, cloud, clock>>

NextUI == AdvanceUI \/ KeyDown \/ ClickState \/ ClickForm \/ Animate \/ Render

SpecUI == InitUI /\ [][NextUI]_vars

\* C17: the selected form starts as ophanim and is always ophanim or nebula,
\* never lattice; key '1' selects ophanim and key '2' selects nebula, no
\* other key and no click on the lattice button changes the form; a lattice
\* form would be rendered by the ring entity.
C17_FormOphanimOrNebula ==
    /\ ui.form = "ophanim"
    /\ [](ui.form \in {"ophanim", "nebula"})
    /\ [](Scene("lattice") = Scene("ophanim") /\ ~available("lattice"))
    /\ [][/\ lastOp' = <<"keydown", "1">> => ui'.form = "ophanim"
          /\ lastOp' = <<"keydown", "2">> => ui'.form = "nebula"
          /\ (lastOp'[1] = "keydown" /\ lastOp'[2] \notin {"1", "2"})
                => ui'.form = ui.form
          /\ lastOp' = <<"clickForm", "lattice">> => ui'.form = ui.form
          /\ (lastOp'[1] = "clickForm" /\ lastOp'[2] # "lattice")
                => ui'.form = lastOp'[2]]_vars

\* Key '3' was pressed or the lattice button clicked while nebula is shown
C17_Witness ==
    /\ ui.form = "nebula"
    /\ lastOp \in {<<"keydown", "3">>, <<"clickForm", "lattice">>}

\* C18: r, t and a in either case call transitionTo for resting, thinking and
\* acting, a click on a state button calls it for its state, no other key
\* touches the engine; a backtick flips autoRotate, which starts TRUE, and no
\* other input changes it.
C18_KeysAndButtonsRequest ==
    /\ ui.autoRotate = TRUE
    /\ [][LET Requested(state) ==
                  /\ ui'.requested = state
                  /\ [currentState |-> currentState', transition |-> transition',
                      transitionRef |-> transitionRef']
                       = transitionToFn(Engine, rendered.currentState,
                                        rendered.transition.isTransitioning,
                                        state, now)
          IN  /\ (lastOp'[1] = "keydown" /\ lastOp'[2] \in {"r", "R"})
                    => Requested("resting")
              /\ (lastOp'[1] = "keydown" /\ lastOp'[2] \in {"t", "T"})
                    => Requested("thinking")
              /\ (lastOp'[1] = "keydown" /\ lastOp'[2] \in {"a", "A"})
                    => Requested("acting")
              /\ lastOp'[1] = "clickState" => Requested(lastOp'[2])
              /\ (/\ lastOp'[1] = "keydown"
                  /\ lastOp'[2] \notin {"r", "R", "t", "T", "a", "A"})
                    => ui'.requested = "none" /\ UNCHANGED engineVars
              /\ lastOp' = <<"keydown", "backtick">> => ui'.autoRotate = ~ui.autoRotate
              /\ lastOp' # <<"keydown", "backtick">> => ui'.autoRotate = ui.autoRotate
         ]_vars

\* An upper-case T has started a transition with auto-rotate switched off
C18_Witness ==
    /\ lastOp = <<"keydown", "T">>
    /\ ui.requested = "thinking"
    /\ transition.isTransitioning /\ transition.to = "thinking"
    /\ ~ui.autoRotate

----------------------------------------------------------------------------
\* Exact arithmetic for particle coordinates.  The diagonal ring axis
\* (1,1,0).normalize() has the components 1/sqrt(2), so coordinates are
\* numbers (p + q*sqrt(2)) / d with integers p, q, d, kept in lowest terms
\* with d > 0.

QNorm(p, q, d) ==
    LET s == IF d < 0 THEN -1 ELSE 1
        g == GCD(GCD(Abs(p), Abs(q)), Abs(d))
    IN  [p |-> (s * p) \div g, q |-> (s * q) \div g, d |-> (s * d) \div g]

Q(i) == [p |-> i, q |-> 0, d |-> 1]

\* The number n/d
QFrac(n, d) == QNorm(n, 0, d)

\* A rational [n, d] as a coordinate
QOfR(r) == [p |-> r.n, q |-> 0, d |-> r.d]

\* sqrt(2)/2
InvSqrt2 == [p |-> 0, q |-> 1, d |-> 2]

QAdd(a, b) == QNorm(a.p * b.d + b.p * a.d, a.q * b.d + b.q * a.d, a.d * b.d)

QNeg(a) == [p |-> -a.p, q |-> -a.q, d |-> a.d]

QSub(a, b) == QAdd(a, QNeg(b))

QMul(a, b) ==
    QNorm(a.p * b.p + 2 * a.q * b.q, a.p * b.q + a.q * b.p, a.d * b.d)

\* 1 / a, for a # 0
QInv(a) == QNorm(a.d * a.p, -(a.d * a.q), a.p * a.p - 2 * a.q * a.q)

\* Vectors are records [x, y, z] of such numbers
Vec(x, y, z) == [x |-> x, y |-> y, z |-> z]

VAdd(u, v) == Vec(QAdd(u.x, v.x), QAdd(u.y, v.y), QAdd(u.z, v.z))

VScale(u, k) == Vec(QMul(u.x, k), QMul(u.y, k), QMul(u.z, k))

dot(u, v) == QAdd(QAdd(QMul(u.x, v.x), QMul(u.y, v.y)), QMul(u.z, v.z))

cross(u, v) ==
    Vec(QSub(QMul(u.y, v.z), QMul(u.z, v.y)),
        QSub(QMul(u.z, v.x), QMul(u.x, v.z)),
        QSub(QMul(u.x, v.y), QMul(u.y, v.x)))

\* Quaternions are records [v, w]: vector part and scalar part

\* Quaternion.setFromUnitVectors(vFrom, vTo) before its normalize(), for
\* vectors that are not opposite: (vFrom x vTo, vFrom . vTo + 1)
setFromUnitVectors(vFrom, vTo) ==
    [v |-> cross(vFrom, vTo), w |-> QAdd(dot(vFrom, vTo), Q(1))]

\* Matrix4.makeRotationFromQuaternion(normalize(q)) applied to a point: the
\* rotation of quaternion q / |q|.  The entries of that matrix are the
\* products of two components of q divided by |q|^2.
applyMatrix4(p, q) ==
    LET n2 == QAdd(dot(q.v, q.v), QMul(q.w, q.w))
        t  == VScale(cross(q.v, p), QMul(Q(2), QInv(n2)))
    IN  VAdd(VAdd(p, VScale(t, q.w)), cross(q.v, t))

\* the axis-angle quaternion built around the y axis whatever the axis
setFromAxisAngleUp(axis, c, s) ==
    [v |-> VScale(Vec(Q(0), Q(1), Q(0)), s), w |-> c]

\* Quaternion.setFromAxisAngle(axis, angle), with c = cos(angle / 2) and
\* s = sin(angle / 2)
setFromAxisAngle(axis, c, s) == [v |-> VScale(axis, s), w |-> c]

\* Vector3.applyQuaternion(q)
applyQuaternion(p, q) ==
    LET t == VScale(cross(q.v, p), Q(2))
    IN  VAdd(VAdd(p, VScale(t, q.w)), cross(q.v, t))

\* Squared distance of point p from the line through the origin along the
\* unit vector axis
AxisDist2(p, axis) == QSub(dot(p, p), QMul(dot(p, axis), dot(p, axis)))

----------------------------------------------------------------------------
\* The frame loop's clock and the parameters of a frame

\* THREE.Clock.getDelta() at time t (ms): the clock after the call, and the
\* time since the previous call in diff
getDelta(c, t) ==
    IF ~c.running
    THEN [clock |-> [running |-> TRUE, oldTime |-> t, elapsedTime |-> 0],
          diff |-> 0]
    ELSE [clock |-> [running |-> TRUE, oldTime |-> t,
                     elapsedTime |-> c.elapsedTime + (t - c.oldTime)],
          diff |-> t - c.oldTime]

\* getInterpolatedValue for per-state values given in hundredths
interpolated(resting100, thinking100, acting100, cs, tr) ==
    RDiv(getInterpolatedValue(resting100, thinking100, acting100, cs, tr),
         R(100))

\* The k-th result of Math.random() under a seed, in [0, 1)
MathRandom(seed, k) == RNorm((37 * seed + 61 * k) % 100, 100)

Seeds == {1}

\* 2 * Math.PI in thousandths
TwoPiMilli == 6283

\* A colour given by its three channel bytes, as fractions of 255
Color(r, g, b) == [r |-> RNorm(r, 255), g |-> RNorm(g, 255), b |-> RNorm(b, 255)]

\* Color.lerp(target, alpha)
lerp(c, target, alpha) ==
    [r |-> RAdd(c.r, RMul(RSub(target.r, c.r), alpha)),
     g |-> RAdd(c.g, RMul(RSub(target.g, c.g), alpha)),
     b |-> RAdd(c.b, RMul(RSub(target.b, c.b), alpha))]

----------------------------------------------------------------------------
\* One ParticleRing of OphanimEntity

PARTICLES_PER_RING == 180

\* #4a9eff, #7b68ee, #00ffff
COLORS ==
    [base |-> Color(74, 158, 255), thinking |-> Color(123, 104, 238),
     acting |-> Color(0, 255, 255)]

RING_CONFIGS ==
    <<[axis |-> Vec(Q(1), Q(0), Q(0)), radius |-> R(2), speed |-> R(1)],
      [axis |-> Vec(Q(0), Q(1), Q(0)), radius |-> RNorm(9, 5),
       speed |-> RNorm(-4, 5)],
      [axis |-> Vec(Q(0), Q(0), Q(1)), radius |-> RNorm(8, 5),
       speed |-> RNorm(9, 10)],
      [axis |-> Vec(InvSqrt2, InvSqrt2, Q(0)), radius |-> RNorm(7, 5),
       speed |-> RNorm(-7, 10)]>>

\* The particles followed: those at a quarter, a half and three quarters of
\* the turn and the first one, whose angle has an exact sine and cosine
RingSamples == {0, 45, 90, 135}

\* Math.cos and Math.sin of (i / PARTICLES_PER_RING) * 2 * PI
cosOfIndex(i) == CASE i = 0 -> Q(1) [] i = 90 -> Q(-1) [] OTHER -> Q(0)

sinOfIndex(i) == CASE i = 45 -> Q(1) [] i = 135 -> Q(-1) [] OTHER -> Q(0)

\* basePositions as the first useMemo of ParticleRing fills it
ringBasePositions(config) ==
    LET up == Vec(Q(0), Q(1), Q(0))
        quaternion == setFromUnitVectors(up, config.axis)
    IN  [i \in RingSamples |->
            applyMatrix4(Vec(QMul(cosOfIndex(i), QOfR(config.radius)), Q(0),
                             QMul(sinOfIndex(i), QOfR(config.radius))),
                         quaternion)]

\* the geometry built on basePositions itself
ringPositionBufferShared == "basePositions"

\* The buffer behind the geometry's position attribute:
\* basePositions.slice() is a buffer of its own
ringPositionBuffer == "position"

\* The ring after its three useMemo blocks have run
ParticleRing(index, seed) ==
    LET config == RING_CONFIGS[index]
        base == ringBasePositions(config)
    IN  [mounted |-> TRUE,
         index |-> index,
         count |-> PARTICLES_PER_RING,
         buffers |-> [basePositions |-> base, position |-> base],
         positionBuffer |-> ringPositionBuffer,
         phases |-> [i \in RingSamples |->
                        RMul(MathRandom(seed, 2 * i), RNorm(TwoPiMilli, 1000))],
         sizes |-> [i \in RingSamples |->
                       RAdd(R(2), RMul(MathRandom(seed, 2 * i + 1), RNorm(3, 2)))],
         uTime |-> Zero,
         uColor |-> COLORS.base,
         uOpacity |-> RNorm(6, 10),
         uPulseIntensity |-> Zero,
         uSpread |-> RNorm(3, 10),
         rotationRef |-> Zero]

\* The unit pairs (cos, sin) of the half angle of a tick's rotation that are
\* tried: no turn, a quarter turn and a half turn
HalfAngles ==
    {[c |-> Q(1), s |-> Q(0)], [c |-> InvSqrt2, s |-> InvSqrt2],
     [c |-> Q(0), s |-> Q(1)]}

\* The ring's useFrame callback: delta in s, time in s, cs and tr the props
\* of the last render, h the cosine and sine of half the rotation angle
ringFrame(r, delta, time, cs, tr, h) ==
    LET config == RING_CONFIGS[r.index]
        speedMultiplier == interpolated(30, 80, 200, cs, tr)
        spread == interpolated(40, 15, 5, cs, tr)
        opacity == interpolated(40, 60, 90, cs, tr)
        pulseIntensity == interpolated(10, 40, 80, cs, tr)
        angle == RMul(RMul(delta, config.speed), speedMultiplier)
        quaternion == setFromAxisAngle(config.axis, h.c, h.s)
        targetColor == IF cs = "acting" THEN COLORS.acting
                       ELSE IF cs = "thinking" THEN COLORS.thinking
                       ELSE COLORS.base
    IN  [r EXCEPT
            !.rotationRef = RAdd(@, angle),
            !.buffers[r.positionBuffer] =
                [i \in RingSamples |-> applyQuaternion(@[i], quaternion)],
            !.uTime = time,
            !.uSpread = spread,
            !.uOpacity = opacity,
            !.uPulseIntensity = pulseIntensity,
            !.uColor = lerp(@, targetColor, RMul(delta, R(3)))]

\* The angle of the rotation of a tick, in radians
ringAngle(r, delta, cs, tr) ==
    RMul(RMul(delta, RING_CONFIGS[r.index].speed),
         interpolated(30, 80, 200, cs, tr))

MaxFrameTime == 1200

FrameDt == 400

InitRing ==
    /\ HookInit
    /\ lastOp = <<"init", "none">>
    /\ interp = NoCall
    /\ ease = NoEase
    /\ ui = InitialUI
    /\ ring \in {ParticleRing(index, seed) :
                    index \in DOMAIN RING_CONFIGS, seed \in Seeds}
    /\ cloud = NoCloud
    /\ clock = NoClock

AdvanceFrame ==
    /\ now + FrameDt <= MaxFrameTime
    /\ now' = now + FrameDt
    /\ lastOp' = <<"advance", "none">>
    /\ UNCHANGED <<currentState, transition, transitionRef, rendered,
                   rafPending, effectTo, effectCleanup, interp, sceneVars>>

\* One frame of the render loop with the ring mounted: the clock is read and
\* the ring's useFrame callback runs with the props of the last render.  The
\* sine of the half angle has the sign of the angle, and a zero angle is no
\* turn.  Frames are at least a millisecond apart.
RingFrame ==
    /\ ring.mounted
    /\ ~clock.running \/ clock.oldTime < now
    /\ LET g == getDelta(clock, now)
           delta == RNorm(g.diff, 1000)
           time == RNorm(g.clock.elapsedTime, 1000)
           angle == ringAngle(ring, delta, rendered.currentState,
                              rendered.transition)
       IN  \E h \in HalfAngles :
               /\ angle = Zero => h.s = Q(0)
               /\ ring' = ringFrame(ring, delta, time, rendered.currentState,
                                    rendered.transition,
                                    [c |-> h.c,
                                     s |-> IF RLt(angle, Zero)
                                           THEN QNeg(h.s) ELSE h.s])
               /\ clock' = g.clock
    /\ lastOp' = <<"ringFrame", "none">>
    /\ UNCHANGED <<now, currentState, transition, transitionRef, rendered,
                   rafPending, effectTo, effectCleanup, interp, ease, ui,
                   cloud>>

NextRing == AdvanceFrame \/ TransitionTo \/ Animate \/ Render \/ RingFrame

SpecRing == InitRing /\ [][NextRing]_vars

\* C14: at construction and after any number of frames every particle of a
\* ring is at the ring's configured radius from the ring's axis.
C14_RingRadiusPreserved ==
    ring.mounted =>
        \A i \in RingSamples :
            AxisDist2(ring.buffers[ring.positionBuffer][i],
                      RING_CONFIGS[ring.index].axis)
              = QOfR(RMul(RING_CONFIGS[ring.index].radius,
                          RING_CONFIGS[ring.index].radius))

\* A ring about the diagonal axis whose particles have left their base
\* positions
C14_Witness ==
    /\ ring.mounted
    /\ ring.index = 4
    /\ lastOp[1] = "ringFrame"
    /\ \A i \in RingSamples :
           ring.buffers[ring.positionBuffer][i] # ring.buffers.basePositions[i]

\* C15: when the ring's frame callback runs right after the engine's animate
\* step of the same tick, the parameters it writes are those of the engine as
\* that step left it, never those of an older snapshot.
C15_ParamsFromAdvancedEngine ==
    [][(lastOp[1] = "animate" /\ lastOp'[1] = "ringFrame") =>
          /\ ring'.uSpread = interpolated(40, 15, 5, currentState, transition)
          /\ ring'.uOpacity = interpolated(40, 60, 90, currentState, transition)
          /\ ring'.uPulseIntensity
               = interpolated(10, 40, 80, currentState, transition)]_vars

\* The colour the ring's frame callback blends toward
ringTargetColor ==
    IF rendered.currentState = "acting" THEN COLORS.acting
    ELSE IF rendered.currentState = "thinking" THEN COLORS.thinking
    ELSE COLORS.base

\* v lies between a and b, ends included
Between(a, v, b) ==
    \/ RLeq(a, v) /\ RLeq(v, b)
    \/ RLeq(b, v) /\ RLeq(v, a)

\* C20: on every ring frame each channel of the ring colour ends between its
\* previous value and the target's value, and does not reach the target's
\* value in one step from a different value.
C20_ColourApproachesTarget ==
    [][lastOp'[1] = "ringFrame" =>
          /\ Between(ring.uColor.r, ring'.uColor.r, ringTargetColor.r)
          /\ Between(ring.uColor.g, ring'.uColor.g, ringTargetColor.g)
          /\ Between(ring.uColor.b, ring'.uColor.b, ringTargetColor.b)
          /\ (ring.uColor.r # ringTargetColor.r
                => ring'.uColor.r # ringTargetColor.r)
          /\ (ring.uColor.g # ringTargetColor.g
                => ring'.uColor.g # ringTargetColor.g)
          /\ (ring.uColor.b # ringTargetColor.b
                => ring'.uColor.b # ringTargetColor.b)]_vars

----------------------------------------------------------------------------
\* Fixed-point arithmetic for the cloud, whose update takes square roots,
\* sines and cosines: lengths, angles, factors and seconds are integers in
\* thousandths, and every operation rounds toward zero.

\* a / b rounded toward zero, for b > 0
quot(a, b) == IF a >= 0 THEN a \div b ELSE -((-a) \div b)

\* Product and quotient of two numbers in thousandths
mul(a, b) == quot(a * b, 1000)

div(a, b) == quot(a * 1000, b)

\* A rational [n, d] in thousandths
milli(r) == quot(r.n * 1000, r.d)

max(a, b) == IF a >= b THEN a ELSE b

RECURSIVE SqrtSearch(_, _, _)
SqrtSearch(n, lo, hi) ==
    IF lo = hi
    THEN lo
    ELSE LET mid == (lo + hi + 1) \div 2
         IN  IF mid * mid <= n
             THEN SqrtSearch(n, mid, hi)
             ELSE SqrtSearch(n, lo, mid - 1)

\* Math.sqrt of a sum of products of two numbers in thousandths (so n is in
\* millionths); the result is in thousandths
sqrt(n) == SqrtSearch(n, 0, 46340)

\* Math.sin of an angle in thousandths of a radian: the angle is brought
\* into [-pi/2, pi/2] and the series is summed up to the seventh power
sin(a) ==
    LET m  == a % 6283
        r  == IF m > 3141 THEN m - 6283 ELSE m
        f  == IF r > 1571 THEN 3142 - r
              ELSE IF r < -1571 THEN -3142 - r
              ELSE r
        f2 == mul(f, f)
        t3 == mul(f, f2)
        t5 == mul(t3, f2)
        t7 == mul(t5, f2)
        v  == f - quot(t3, 6) + quot(t5, 120) - quot(t7, 5040)
    IN  IF v > 1000 THEN 1000 ELSE IF v < -1000 THEN -1000 ELSE v

\* Math.cos
cos(a) == sin(a + 1571)

\* Length of a vector of integers in thousandths
length(x, y, z) == sqrt(x * x + y * y + z * z)

----------------------------------------------------------------------------
\* The NebulaCloud of NebulaEntity

CORE_PARTICLES == 400

MID_PARTICLES == 350

EDGE_PARTICLES == 250

TOTAL_PARTICLES == CORE_PARTICLES + MID_PARTICLES + EDGE_PARTICLES

\* #ff6b9d, #ffffff, #9d4edd, #4361ee, #4cc9f0
NEBULA_COLORS ==
    [core |-> Color(255, 107, 157), coreActing |-> Color(255, 255, 255),
     mid |-> Color(157, 78, 221), edge |-> Color(67, 97, 238),
     acting |-> Color(76, 201, 240)]

\* The particles followed: two of the core that start close to the vertical
\* axis, one of the mid shell and two of the edge, one of them close to the
\* outer radius
CloudSamples == {4, 13, 400, 750, 772}

\* The layer the construction loops give particle i
layerOf(i) ==
    IF i < CORE_PARTICLES THEN 0
    ELSE IF i < CORE_PARTICLES + MID_PARTICLES THEN 1
    ELSE 2

\* The k-th Math.random() of the construction of particle i, in thousandths
rnd(seed, i, k) == milli(MathRandom(seed, 8 * i + k))

\* The position the construction loops give particle i
cloudPosition(seed, i) ==
    LET theta  == mul(rnd(seed, i, 0), 6283)
        cosPhi == 2 * rnd(seed, i, 1) - 1000
        sinPhi == sqrt(1000 * 1000 - cosPhi * cosPhi)
        r      == CASE layerOf(i) = 0 -> mul(rnd(seed, i, 2), 600)
                    [] layerOf(i) = 1 -> 500 + mul(rnd(seed, i, 2), 1000)
                    [] OTHER          -> 1200 + mul(rnd(seed, i, 2), 1300)
    IN  [x |-> mul(mul(r, sinPhi), cos(theta)),
         y |-> mul(mul(r, sinPhi), sin(theta)),
         z |-> mul(r, cosPhi)]

\* What the frame callback last computed for one particle: the horizontal
\* radius before and after the flow step, whether that step ran, and
\* whether the soft boundary rescaled the particle
NoTrace == [dist |-> 0, newDist |-> 0, flowed |-> FALSE, clamped |-> FALSE]

\* The cloud after its useMemo blocks have run.  The geometry's position
\* attribute is built on the positions array itself; basePositionsRef holds
\* positions.slice()
NebulaCloud(seed) ==
    LET positions == [i \in CloudSamples |-> cloudPosition(seed, i)]
    IN  [mounted |-> TRUE,
         count |-> TOTAL_PARTICLES,
         buffers |-> [positions |-> positions, basePositions |-> positions],
         positionBuffer |-> "positions",
         sizes |-> [i \in CloudSamples |->
                      CASE layerOf(i) = 0 -> 3000 + mul(rnd(seed, i, 3), 2000)
                        [] layerOf(i) = 1 -> 2000 + mul(rnd(seed, i, 3), 1500)
                        [] OTHER          -> 1000 + mul(rnd(seed, i, 3), 1000)],
         layers |-> [i \in CloudSamples |-> layerOf(i)],
         phases |-> [i \in CloudSamples |-> mul(rnd(seed, i, 4), 6283)],
         velocities |-> [i \in CloudSamples |->
                           LET v == CASE layerOf(i) = 0 -> 20
                                      [] layerOf(i) = 1 -> 40
                                      [] OTHER          -> 80
                           IN  [x |-> mul(rnd(seed, i, 5) - 500, v),
                                y |-> mul(rnd(seed, i, 6) - 500, v),
                                z |-> mul(rnd(seed, i, 7) - 500, v)]],
         uTime |-> 0,
         uCoreColor |-> NEBULA_COLORS.core,
         uMidColor |-> NEBULA_COLORS.mid,
         uEdgeColor |-> NEBULA_COLORS.edge,
         uIntensity |-> 500,
         uContraction |-> 1000,
         trace |-> [i \in CloudSamples |-> NoTrace]]

\* The parameters the cloud's frame callback derives from its props
cloudParams(cs, tr) ==
    [flowSpeed      |-> milli(interpolated(30, 80, 150, cs, tr)),
     contraction    |-> milli(interpolated(100, 70, 50, cs, tr)),
     intensity      |-> milli(interpolated(40, 70, 120, cs, tr)),
     spiralStrength |-> milli(interpolated(0, 30, 60, cs, tr)),
     chaosAmount    |-> milli(interpolated(2, 5, 10, cs, tr))]

\* the spiral pull applied outward
newDistOutward(dist, spiralPull) == max(100, dist + mul(spiralPull, 100))

\* newDist of the flow step: Math.max(0.1, dist - spiralPull * 0.1)
newDist(dist, spiralPull) == max(100, dist - mul(spiralPull, 100))

\* The shell's maximum radius
maxDist(layer) == IF layer = 0 THEN 800 ELSE IF layer = 1 THEN 1500 ELSE 2500

\* the soft boundary switched off
softBoundaryOff(p, bound) == [p |-> p, clamped |-> FALSE]

\* the soft boundary without its margin of 0.95
softBoundaryNoMargin(p, bound) ==
    LET currentDist == length(p.x, p.y, p.z)
    IN  IF currentDist > bound
        THEN LET scale == div(bound, currentDist)
             IN  [p |-> [x |-> mul(p.x, mul(scale, 1000)),
                         y |-> mul(p.y, mul(scale, 1000)),
                         z |-> mul(p.z, mul(scale, 1000))],
                  clamped |-> TRUE]
        ELSE [p |-> p, clamped |-> FALSE]

\* The soft boundary: a particle farther out than bound = maxDist *
\* contraction is rescaled by (bound / currentDist) * 0.95
softBoundary(p, bound) ==
    LET currentDist == length(p.x, p.y, p.z)
    IN  IF currentDist > bound
        THEN LET scale == div(bound, currentDist)
             IN  [p |-> [x |-> mul(p.x, mul(scale, 950)),
                         y |-> mul(p.y, mul(scale, 950)),
                         z |-> mul(p.z, mul(scale, 950))],
                  clamped |-> TRUE]
        ELSE [p |-> p, clamped |-> FALSE]

\* The k-th Math.random() of the chaos step of particle i, in thousandths
chaosRnd(seed, i, k) == milli(MathRandom(seed, 3 * i + k))

ChaosSeeds == {0, 1}

\* The one element of a set of one element.  The steps of the loop body
\* are chained through such sets, so that each intermediate value is
\* computed once.
Only(S) == CHOOSE v \in S : TRUE

\* Flow field: the rotation about the y axis and the spiral pull, for a
\* particle at p whose horizontal radius is dist.  Math.cos(angle + rotSpeed)
\* and Math.sin(angle + rotSpeed) with angle = Math.atan2(z, x) are taken by
\* the addition formulas from x / dist and z / dist.
flowStep(layer, p, dist, prm, delta) ==
    LET rotSpeed   == mul(mul(prm.flowSpeed, 500 + layer * 300), delta)
        spiralPull == mul(mul(prm.spiralStrength, delta), (layer + 1) * 1000)
        nd         == newDist(dist, spiralPull)
        cosNew     == quot(p.x * cos(rotSpeed) - p.z * sin(rotSpeed), dist)
        sinNew     == quot(p.x * sin(rotSpeed) + p.z * cos(rotSpeed), dist)
    IN  IF dist > 10
        THEN [x |-> mul(cosNew, nd), y |-> p.y, z |-> mul(sinNew, nd),
              dist |-> dist, newDist |-> nd, flowed |-> TRUE]
        ELSE [x |-> p.x, y |-> p.y, z |-> p.z,
              dist |-> dist, newDist |-> dist, flowed |-> FALSE]

\* Vertical oscillation, pull toward the centre and chaos, for particle i as
\* the flow step left it in f
moveStep(i, f, prm, delta, time, seed) ==
    LET y1   == f.y + mul(mul(sin(2 * time + 100 * i), 2), prm.flowSpeed)
        len  == length(f.x, y1, f.z)
        norm == IF len = 0 THEN 1000 ELSE len
        pullStrength == mul(10, prm.flowSpeed)
    IN  [f EXCEPT
            !.x = f.x + mul(mul(div(-f.x, norm), pullStrength), delta)
                      + mul(chaosRnd(seed, i, 0) - 500, prm.chaosAmount),
            !.y = y1 + mul(mul(div(-y1, norm), pullStrength), delta)
                     + mul(chaosRnd(seed, i, 1) - 500, prm.chaosAmount),
            !.z = f.z + mul(mul(div(-f.z, norm), pullStrength), delta)
                      + mul(chaosRnd(seed, i, 2) - 500, prm.chaosAmount)]

\* Soft boundary and the write of the position, for a particle as the
\* movement steps left it in m
boundaryStep(layer, m, prm) ==
    LET b == softBoundary([x |-> m.x, y |-> m.y, z |-> m.z],
                          mul(maxDist(layer), prm.contraction))
    IN  [p |-> b.p,
         trace |-> [dist |-> m.dist, newDist |-> m.newDist,
                    flowed |-> m.flowed, clamped |-> b.clamped]]

\* The body of the frame callback's loop for particle i at position p
cloudStep(i, layer, p, prm, delta, time, seed) ==
    Only({boundaryStep(layer, m, prm) :
            m \in {moveStep(i, f, prm, delta, time, seed) :
                     f \in {flowStep(layer, p, dist, prm, delta) :
                              dist \in {sqrt(p.x * p.x + p.z * p.z)}}}})

\* The frame callback for given parameters prm
cloudFrameWith(c, prm, delta, time, cs, seed) ==
    LET targetCore == IF cs = "acting" THEN NEBULA_COLORS.coreActing
                      ELSE NEBULA_COLORS.core
        targetMid  == IF cs = "acting" THEN NEBULA_COLORS.acting
                      ELSE NEBULA_COLORS.mid
    IN  Only({[c EXCEPT
                 !.buffers[c.positionBuffer] =
                     [i \in CloudSamples |-> step[i].p],
                 !.trace = [i \in CloudSamples |-> step[i].trace],
                 !.uTime = time,
                 !.uContraction = prm.contraction,
                 !.uIntensity = prm.intensity,
                 !.uCoreColor = lerp(@, targetCore, RNorm(2 * delta, 1000)),
                 !.uMidColor = lerp(@, targetMid, RNorm(2 * delta, 1000))] :
              step \in {[i \in CloudSamples |->
                           cloudStep(i, c.layers[i],
                                     c.buffers[c.positionBuffer][i],
                                     prm, delta, time, seed)]}})

\* The cloud's useFrame callback: delta and time in ms, cs and tr the props
\* of the last render, seed the state of Math.random()
cloudFrame(c, delta, time, cs, tr, seed) ==
    Only({cloudFrameWith(c, prm, delta, time, cs, seed) :
            prm \in {cloudParams(cs, tr)}})

InitCloud ==
    /\ HookInit
    /\ lastOp = <<"init", "none">>
    /\ interp = NoCall
    /\ ease = NoEase
    /\ ui = [InitialUI EXCEPT !.form = "nebula"]
    /\ ring = NoRing
    /\ cloud \in {NebulaCloud(seed) : seed \in Seeds}
    /\ clock = NoClock

\* One frame of the render loop with the cloud mounted: the clock is read
\* and the cloud's useFrame callback runs with the props of the last render.
\* Frames are at least a millisecond apart.
CloudFrame ==
    /\ cloud.mounted
    /\ ~clock.running \/ clock.oldTime < now
    /\ LET g == getDelta(clock, now)
       IN  \E seed \in ChaosSeeds :
               /\ cloud' = cloudFrame(cloud, g.diff, g.clock.elapsedTime,
                                      rendered.currentState,
                                      rendered.transition, seed)
               /\ clock' = g.clock
    /\ lastOp' = <<"cloudFrame", "none">>
    /\ UNCHANGED <<now, currentState, transition, transitionRef, rendered,
                   rafPending, effectTo, effectCleanup, interp, ease, ui,
                   ring>>

NextCloud == AdvanceFrame \/ TransitionTo \/ Animate \/ Render \/ CloudFrame

SpecCloud == InitCloud /\ [][NextCloud]_vars

\* Distance of sampled particle i from the origin
cloudDist(i) ==
    LET p == cloud.buffers[cloud.positionBuffer][i]
    IN  length(p.x, p.y, p.z)

\* C12: after every cloud frame every particle is within its shell's maximum
\* radius times the contraction that frame used (the uniform it wrote); the
\* initial layout is within the maximum radius at contraction 1.0.
C12_CloudContained ==
    cloud.mounted =>
        /\ \A i \in CloudSamples :
               cloudDist(i) <= mul(maxDist(cloud.layers[i]), cloud.uContraction)
        /\ lastOp[1] = "init" => cloud.uContraction = 1000

\* The bound of the soft boundary for sampled particle i in the last frame
cloudBound(i) == mul(maxDist(cloud.layers[i]), cloud.uContraction)

\* A frame under a contraction below 1.0 has rescaled a particle
C12_Witness ==
    /\ cloud.mounted
    /\ lastOp[1] = "cloudFrame"
    /\ cloud.uContraction < 1000
    /\ \E i \in CloudSamples : cloud.trace[i].clamped

\* C13 as stated: after every cloud frame every particle is within 0.951
\* times its shell's maximum radius times the contraction.
C13_WithinMarginAlways ==
    (cloud.mounted /\ lastOp[1] = "cloudFrame") =>
        \A i \in CloudSamples : cloudDist(i) * 1000 <= cloudBound(i) * 951

\* C13, amended: after a cloud frame a particle that the soft boundary
\* rescaled in that frame is within 0.951 times its shell's maximum radius
\* times the contraction, and above nine tenths of it; a particle that was
\* not rescaled is within the maximum radius times the contraction.
C13_MarginWhenRescaled ==
    (cloud.mounted /\ lastOp[1] = "cloudFrame") =>
        \A i \in CloudSamples :
            IF cloud.trace[i].clamped
            THEN /\ cloudDist(i) * 1000 <= cloudBound(i) * 951
                 /\ cloudDist(i) * 1000 >= cloudBound(i) * 900
            ELSE cloudDist(i) <= cloudBound(i)

\* A frame has rescaled one particle and left another one, which it did not
\* rescale, farther out than 0.951 of its bound
C13_Witness ==
    /\ cloud.mounted
    /\ lastOp[1] = "cloudFrame"
    /\ \E i \in CloudSamples : cloud.trace[i].clamped
    /\ \E i \in CloudSamples :
           /\ ~cloud.trace[i].clamped
           /\ cloudDist(i) * 1000 > cloudBound(i) * 951

\* spiralStrength as the last frame computed it
spiralStrengthUsed ==
    cloudParams(rendered.currentState, rendered.transition).spiralStrength

\* C19 as stated: the flow step of a cloud frame never increases a
\* particle's horizontal radius, and leaves it unchanged when spiralStrength
\* is 0.
C19_SpiralNeverOutward ==
    (cloud.mounted /\ lastOp[1] = "cloudFrame") =>
        \A i \in CloudSamples :
            /\ cloud.trace[i].newDist <= cloud.trace[i].dist
            /\ spiralStrengthUsed = 0
                 => cloud.trace[i].newDist = cloud.trace[i].dist

\* C19, amended: the flow step leaves a particle within 0.01 of the vertical
\* axis alone, sets the horizontal radius of a particle between 0.01 and 0.1
\* of the axis to 0.1, and for a particle at 0.1 or more never increases the
\* radius, never takes it below 0.1 and leaves it unchanged when
\* spiralStrength is 0.
C19_SpiralInwardDownToFloor ==
    (cloud.mounted /\ lastOp[1] = "cloudFrame") =>
        \A i \in CloudSamples :
            LET t == cloud.trace[i]
            IN  /\ t.flowed = (t.dist > 10)
                /\ ~t.flowed => t.newDist = t.dist
                /\ (t.flowed /\ t.dist < 100) => t.newDist = 100
                /\ (t.flowed /\ t.dist >= 100) =>
                       /\ t.newDist <= t.dist
                       /\ t.newDist >= 100
                       /\ spiralStrengthUsed = 0 => t.newDist = t.dist

\* A frame with a spiral pull has drawn one particle inward and has put
\* another one, which was closer than 0.1 to the axis, at 0.1
C19_Witness ==
    /\ cloud.mounted
    /\ lastOp[1] = "cloudFrame"
    /\ spiralStrengthUsed > 0
    /\ \E i \in CloudSamples :
           cloud.trace[i].dist >= 100 /\ cloud.trace[i].newDist < cloud.trace[i].dist
    /\ \E i \in CloudSamples :
           cloud.trace[i].flowed /\ cloud.trace[i].dist < 100

----------------------------------------------------------------------------
\* The scene with either entity mounted: the ring form App starts with, or
\* the cloud form after key '2'

InitScene == InitRing \/ InitCloud

NextScene ==
    AdvanceFrame \/ TransitionTo \/ Animate \/ Render \/ RingFrame \/ CloudFrame

SpecScene == InitScene /\ [][NextScene]_vars

\* The ring's frame callback left everything but the position buffer and the
\* uniforms as it was
RingFrameWritesOnlyPositionsAndUniforms ==
    ring' = [ring EXCEPT !.buffers.position = ring'.buffers.position,
                         !.uTime = ring'.uTime,
                         !.uColor = ring'.uColor,
                         !.uOpacity = ring'.uOpacity,
                         !.uPulseIntensity = ring'.uPulseIntensity,
                         !.uSpread = ring'.uSpread]

\* The same, the rotation accumulator set aside
RingFrameWritesAlsoRotation ==
    ring' = [ring EXCEPT !.buffers.position = ring'.buffers.position,
                         !.uTime = ring'.uTime,
                         !.uColor = ring'.uColor,
                         !.uOpacity = ring'.uOpacity,
                         !.uPulseIntensity = ring'.uPulseIntensity,
                         !.uSpread = ring'.uSpread,
                         !.rotationRef = ring'.rotationRef]

\* The cloud's frame callback left everything but the position buffer and
\* the uniforms as it was (trace holds the callback's locals)
CloudFrameWritesOnlyPositionsAndUniforms ==
    cloud' = [cloud EXCEPT !.buffers.positions = cloud'.buffers.positions,
                           !.uTime = cloud'.uTime,
                           !.uContraction = cloud'.uContraction,
                           !.uIntensity = cloud'.uIntensity,
                           !.uCoreColor = cloud'.uCoreColor,
                           !.uMidColor = cloud'.uMidColor,
                           !.trace = cloud'.trace]

\* C16 as stated: a frame of the ring or of the cloud leaves the particle
\* count, the base positions and the size, phase and layer attributes as
\* they are, and writes nothing but the current positions and the uniforms.
C16_FrameWritesOnlyPositionsAndUniforms ==
    [][/\ lastOp'[1] = "ringFrame" => RingFrameWritesOnlyPositionsAndUniforms
       /\ lastOp'[1] = "cloudFrame" => CloudFrameWritesOnlyPositionsAndUniforms
      ]_vars

\* C16, amended: a frame of the ring or of the cloud leaves the particle
\* count, the base positions and the size, phase and layer attributes as
\* they are; the cloud's frame writes nothing but the current positions and
\* the uniforms, the ring's frame writes these and adds the angle of its
\* rotation to the ring's rotation accumulator.
C16_FrameWritesPositionsUniformsRotation ==
    [][/\ lastOp'[1] = "ringFrame" =>
             /\ RingFrameWritesAlsoRotation
             /\ ring'.rotationRef
                  = RAdd(ring.rotationRef,
                         ringAngle(ring, RNorm(getDelta(clock, now).diff, 1000),
                                   rendered.currentState, rendered.transition))
       /\ lastOp'[1] = "cloudFrame" => CloudFrameWritesOnlyPositionsAndUniforms
      ]_vars

\* A ring frame has moved the particles away from the base positions and
\* has advanced the rotation accumulator
C16_Witness ==
    /\ ring.mounted
    /\ lastOp[1] = "ringFrame"
    /\ ring.rotationRef # Zero
    /\ ring.buffers.position # ring.buffers.basePositions
    /\ ring.buffers.basePositions = ringBasePositions(RING_CONFIGS[ring.index])

====
